---------------------------- MODULE Spec2Model ----------------------------
(***************************************************************************)
(* QuoteScout: the dashboard, landing and auth pages of the front-end and  *)
(* the row level security policies of the Supabase schema.                 *)
(*                                                                         *)
(* A browser holds one Supabase session (authSession) shared by its tabs.  *)
(* Each tab shows one page at a time; the page's React state lives in the  *)
(* per-tab variables below.  Every `await` of the source is a point where  *)
(* other tabs, the backend, the billing webhook and session expiry may     *)
(* interleave, so each asynchronous flow of a page has its own position.   *)
(* A call that is pending when router.push replaces its page goes on       *)
(* running: its setState calls do nothing, its requests, downloads, alerts *)
(* and navigations happen.                                                 *)
(* The REST backend (GET /profile, GET /history, POST /generate-quotes,    *)
(* POST /create-checkout-session) is not part of the sources; its handlers *)
(* are written from the specification's sections 4.1 and 6.                *)
(***************************************************************************)
EXTENDS Naturals, Integers, Sequences, FiniteSets, TLC

\* ---------------------------------------------------------------- bounds
\* usage_count is an unbounded integer column; generations stop at this value.
MaxUsage == 2
\* quote_generations is an unbounded table; inserts stop at this many rows.
MaxGen == 2
\* A tab can hold any number of calls that outlived their page or their
\* handler; at most this many of them are pending at a time.
MaxOld == 1
\* The Logout buttons are never disabled; a page has at most this many
\* signOut calls pending at a time.
MaxSignOut == 2

\* ------------------------------------------------------------- universes
Tabs == {"t1", "t2"}
Users == {"u1", "u2"}
\* The person using the browser of the model.
Me == "u1"
NoSession == "no_session"
NoUser == "no_user"
\* useState<Profile | null>(null): the profile before GET /profile answered.
NoProfile == [loaded |-> FALSE, usage_count |-> 0, is_subscribed |-> FALSE]
\* getToken's fallback: session?.access_token ?? ''
EmptyToken == ""
InputTypes == {"book_title", "text_snippet"}
\* Contents of a text field at the moment of a click, as character sequences:
\* empty, blanks only, text in blanks.
Texts == {<<>>, <<" ", " ">>, <<" ", "G", " ">>}

VARIABLES
  \* --- Supabase auth (browser local storage) and billing provider
  authSession,     \* NoSession or the signed-in user
  paid,            \* a checkout was paid; the billing webhook is still due
  \* --- database: public.profiles and public.quote_generations
  usage_count,     \* [Users -> 0..MaxUsage]
  is_subscribed,   \* [Users -> BOOLEAN]
  generations,     \* sequence of rows, each row its user_id
  \* --- direct data-layer access through the row policies
  seenProfiles,    \* [Users -> profile ids returned by the caller's last select]
  seenGenerations, \* [Users -> generation row numbers returned by the last select]
  lastOp,          \* the last write to the database: [kind, caller, owner]
  \* --- per tab
  ui,              \* the mounted page and its React state (useState values)
  flow,            \* positions and locals of the page's asynchronous flows
  old              \* per tab, the calls still pending that are no longer in flow

dbVars == <<usage_count, is_subscribed, generations>>
dataVars == <<seenProfiles, seenGenerations, lastOp>>
envVars == <<authSession, paid>>
tabVars == <<ui, flow, old>>
vars == <<authSession, paid, usage_count, is_subscribed, generations,
          seenProfiles, seenGenerations, lastOp, ui, flow, old>>

\* inputType, bookTitle, snippet as a call of handleGenerate reads them.
Form(inputType, bookTitle, snippet) ==
  [inputType |-> inputType, bookTitle |-> bookTitle, snippet |-> snippet]

\* No call of handleGenerate is between its click and its POST.
NoForm == Form("none", <<>>, <<>>)

\* ------------------------------------------------------ page state at mount
\* useState initial values of the page mounted at route pg: "landing" (/),
\* "login", "dashboard", the hosted "checkout", or "closed" for no page.  `user`, `loading`
\* are shared names of the three pages; the landing page has no loading state,
\* which is kept FALSE for it.
PageState(pg, success) ==
  [page |-> pg,
   user |-> NoUser,
   profile |-> NoProfile,
   history |-> {},
   loading |-> (pg \in {"dashboard", "login"}),
   generating |-> FALSE,
   upgrading |-> FALSE,
   showSuccess |-> FALSE,
   successParam |-> success,   \* window.location.search has success=true
   alertMsg |-> "none",        \* the alert() dialog on screen, "none" without one
   downloaded |-> FALSE,       \* a.click() ran since the last Generate click
   form |-> NoForm]            \* the form handleGenerate read, until its POST is issued

\* Every page starts its page-load effect (getUser) at mount.
FlowState(pg) ==
  [initPc |-> IF pg \in {"checkout", "closed"} THEN "off" ELSE "getUser",
   initToken |-> EmptyToken,   \* `token` of the dashboard's page-load effect
   initP |-> "none",           \* its fetchProfile call: "none" | "sent" | "done"
   initH |-> "none",           \* its fetchHistory call
   genPc |-> "idle",           \* handleGenerate
   genToken |-> EmptyToken,    \* `token`, then `t`, of handleGenerate
   genResp |-> "none",         \* the response to its POST
   genP |-> "none",            \* its refresh fetchProfile call
   genH |-> "none",            \* its refresh fetchHistory call
   upPc |-> "idle",            \* handleUpgrade
   upToken |-> EmptyToken,     \* `token` of handleUpgrade
   authPc |-> "idle",          \* handleSubmit of the auth page
   outN |-> 0,                 \* pending signOut calls of the dashboard's handleLogout
   authOutN |-> 0]             \* pending signOut calls of the auth page's handleLogout

Request(ep, tk) == [endpoint |-> ep, token |-> tk]

\* The backend requests of the flows f that are issued and not yet settled,
\* each with the bearer token of its Authorization header.  The POST of
\* handleGenerate is unsettled until its answer reached the page.
Requests(f) ==
  (IF f.initP = "sent" THEN {Request("GET /profile", f.initToken)} ELSE {})
  \cup (IF f.initH = "sent" THEN {Request("GET /history", f.initToken)} ELSE {})
  \cup (IF f.genPc \in {"post", "resp"}
        THEN {Request("POST /generate-quotes", f.genToken)} ELSE {})
  \cup (IF f.genP = "sent" THEN {Request("GET /profile", f.genToken)} ELSE {})
  \cup (IF f.genH = "sent" THEN {Request("GET /history", f.genToken)} ELSE {})
  \cup (IF f.upPc = "post"
        THEN {Request("POST /create-checkout-session", f.upToken)} ELSE {})

\* The requests in flight that the page mounted in tab t issued.
PageInFlight(t) ==
  Requests(flow[t])
    \cup UNION {Requests(old[t][k].f) : k \in {i \in 1..Len(old[t]) : old[t][i].mounted}}

\* All requests of tab t in flight, those of replaced pages included.
InFlight(t) ==
  Requests(flow[t]) \cup UNION {Requests(old[t][k].f) : k \in 1..Len(old[t])}

\* alert() blocks the tab's script until the dialog is dismissed.
Ready(t) == ui[t].alertMsg = "none"

\* ----------------------------------------------- calls that outlive their page
\* Slot 0 is the mounted page's flows, slot k >= 1 the k-th entry of old[t].
Slots(t) == 0..Len(old[t])

FlowOf(t, k) == IF k = 0 THEN flow[t] ELSE old[t][k].f

\* setState reaches the component only while it is mounted.
Live(t, k) == k = 0 \/ old[t][k].mounted

\* Of the state u1 a step computed, what a call of an unmounted page changes
\* in the tab whose page state is u: the alert() dialog and the download.
TabEffects(u, u1) == [u EXCEPT !.alertMsg = u1.alertMsg, !.downloaded = u1.downloaded]

\* Flows f have an await whose continuation is still to run.
Pending(f) ==
  \/ f.initPc \in {"getUser", "getToken"}
  \/ f.initP = "sent" \/ f.initH = "sent"
  \/ f.genPc # "idle" \/ f.genP = "sent" \/ f.genH = "sent"
  \/ f.upPc # "idle"
  \/ f.authPc # "idle"
  \/ f.outN > 0 \/ f.authOutN > 0

\* What is left to run of the page-load effect in the flows f of a replaced
\* page: past getUser and getToken and without a fetch in flight, nothing.
Rest(f) ==
  IF f.initPc \in {"getUser", "getToken"} \/ f.initP = "sent" \/ f.initH = "sent"
  THEN f
  ELSE [f EXCEPT !.initPc = "off", !.initToken = EmptyToken,
                 !.initP = "none", !.initH = "none"]

\* The flows f of the page at route pg when the page is replaced.  The
\* page-load effects of the landing page and the auth page only set state
\* after their getUser: nothing of them is left to act.
Leave(pg, f) == IF pg = "dashboard" THEN f ELSE [f EXCEPT !.initPc = "off"]

StillPending(r) == Pending(r.f)

\* The number of calls pending in the flows f: the page-load effect,
\* handleGenerate (or the fetch it left in flight), handleUpgrade,
\* handleSubmit and every signOut.
Calls(f) ==
  (IF f.initPc \in {"getUser", "getToken"} \/ f.initP = "sent" \/ f.initH = "sent"
   THEN 1 ELSE 0)
  + (IF f.genPc # "idle" \/ f.genP = "sent" \/ f.genH = "sent" THEN 1 ELSE 0)
  + (IF f.upPc # "idle" THEN 1 ELSE 0)
  + (IF f.authPc # "idle" THEN 1 ELSE 0)
  + f.outN + f.authOutN

\* The number of calls pending in the entries of s.
RECURSIVE OldCalls(_)
OldCalls(s) == IF s = <<>> THEN 0 ELSE Calls(Head(s).f) + OldCalls(Tail(s))

\* The entries of s that still have something to run.
Prune(s) ==
  SelectSeq([i \in 1..Len(s) |-> [s[i] EXCEPT !.f = Rest(@)]], StillPending)

\* The step of slot k of tab t that computed page state u1 and flows f1.
Step(t, k, u1, f1) ==
  /\ ui' = [ui EXCEPT ![t] = IF Live(t, k) THEN u1 ELSE TabEffects(ui[t], u1)]
  /\ IF k = 0
     THEN /\ flow' = [flow EXCEPT ![t] = f1]
          /\ old' = old
     ELSE /\ flow' = flow
          /\ old' = [old EXCEPT ![t] = Prune([@ EXCEPT ![k].f = f1])]

\* router.push(pg) and <Link href> of the mounted page, whose flows are at f:
\* the page at pg replaces it.  The calls of the replaced page go on.
Navigate(t, pg, f) ==
  /\ ui' = [ui EXCEPT ![t] = PageState(pg, FALSE)]
  /\ flow' = [flow EXCEPT ![t] = FlowState(pg)]
  /\ old' = [old EXCEPT ![t] =
       Prune([i \in 1..Len(@) |-> [@[i] EXCEPT !.mounted = FALSE]]
             \o <<[f |-> Leave(ui[t].page, f), mounted |-> FALSE]>>)]
  /\ OldCalls(old'[t]) <= MaxOld

\* router.push(pg) called by slot k of tab t, whose flows are then at f1.  A
\* call of a replaced page navigates the tab as well: the page at pg replaces
\* whatever page is mounted, unless that page is the one at pg already, which
\* stays mounted with its state.
Push(t, k, pg, f1) ==
  IF k = 0 THEN Navigate(t, pg, f1)
  ELSE IF ui[t].page = pg
  THEN /\ ui' = ui
       /\ flow' = flow
       /\ old' = [old EXCEPT ![t] = Prune([@ EXCEPT ![k].f = f1])]
  ELSE /\ ui' = [ui EXCEPT ![t] = PageState(pg, FALSE)]
       /\ flow' = [flow EXCEPT ![t] = FlowState(pg)]
       /\ old' = [old EXCEPT ![t] =
            Prune([i \in 1..Len(@) |->
                     [f |-> IF i = k THEN f1 ELSE @[i].f, mounted |-> FALSE]]
                  \o <<[f |-> Leave(ui[t].page, flow[t]), mounted |-> FALSE]>>)]
       /\ OldCalls(old'[t]) <= MaxOld

\* A document load (window.location.href, the return from the hosted
\* checkout): the tab's script and its pending calls end with the old document.
Load(t, pg, success) ==
  /\ ui' = [ui EXCEPT ![t] = PageState(pg, success)]
  /\ flow' = [flow EXCEPT ![t] = FlowState(pg)]
  /\ old' = [old EXCEPT ![t] = <<>>]

\* ------------------------------------------------------------ derived view
\* profile?.usage_count ?? 0
usageCount(p) == IF p.loaded THEN p.usage_count ELSE 0

\* Mutant of canGenerate: the free tier compared with <= instead of <.
canGenerateOffByOne(p) == (p.loaded /\ p.is_subscribed) \/ usageCount(p) <= 1

\* profile?.is_subscribed || usageCount < 1
canGenerate(p) == (p.loaded /\ p.is_subscribed) \/ usageCount(p) < 1

\* What the page renders.
View(t) ==
  CASE ui[t].page = "dashboard" ->
         IF ui[t].loading THEN "loading" ELSE "protected"
    [] ui[t].page = "login" ->
         IF ui[t].loading THEN "loading"
         ELSE IF ui[t].user # NoUser THEN "welcome" ELSE "login_form"
    [] ui[t].page = "landing" ->
         IF ui[t].user # NoUser THEN "resume" ELSE "login_prompt"
    [] ui[t].page = "checkout" -> "external"
    [] OTHER -> "closed"

\* The action button of the generate card.
ActionButton(t) ==
  IF View(t) # "protected" THEN "none"
  ELSE IF canGenerate(ui[t].profile) THEN "generate" ELSE "upgrade"

BannerVisible(t) == View(t) = "protected" /\ ui[t].showSuccess

\* The session state of section 4.2, as the page knows it.
SessionState(t) ==
  IF flow[t].initPc = "getUser" THEN "UNKNOWN"
  ELSE IF ui[t].user # NoUser THEN "AUTHENTICATED" ELSE "UNAUTHENTICATED"

\* --------------------------------------------------------------- database
\* Row numbers of the generation rows owned by u.
GenerationsOf(u) == {i \in 1..Len(generations) : generations[i] = u}

\* The body of GET /profile for user u.
ProfileRow(u) ==
  [loaded |-> TRUE, usage_count |-> usage_count[u], is_subscribed |-> is_subscribed[u]]

NoOp == [kind |-> "none", caller |-> "none", owner |-> "none"]

\* -------------------------------------------------------------------- Init
\* Fresh accounts, no generation yet; pages gives the page each tab opens.
InitWith(pages) ==
  /\ usage_count = [u \in Users |-> 0]
  /\ is_subscribed = [u \in Users |-> FALSE]
  /\ generations = <<>>
  /\ seenProfiles = [u \in Users |-> {}]
  /\ seenGenerations = [u \in Users |-> {}]
  /\ lastOp = NoOp
  /\ ui = [t \in Tabs |-> PageState(pages[t], FALSE)]
  /\ flow = [t \in Tabs |-> FlowState(pages[t])]
  /\ old = [t \in Tabs |-> <<>>]

\* One tab, opened on any of the three pages, signed in or not.
Init ==
  /\ authSession \in {NoSession, Me}
  /\ paid = FALSE
  /\ \E pg \in {"landing", "login", "dashboard"} :
       InitWith([t \in Tabs |-> IF t = "t1" THEN pg ELSE "closed"])

\* ------------------------------------------------- session provider calls
\* supabase.auth.getUser(): the user of the session, or none; the call to the
\* auth server may also fail ("error").
GetUserResults == IF authSession = NoSession THEN {"none"} ELSE {authSession, "error"}

\* getToken(): session?.access_token ?? ''
getToken == IF authSession = NoSession THEN EmptyToken ELSE authSession

\* ------------------------------------------------------- backend: reads
\* How a GET with bearer token tk can end: a 2xx answer, a non-OK answer or a
\* rejected fetch.  The backend requires a bearer token.
GetOutcomes(tk) == IF tk = EmptyToken THEN {"nonok", "throw"} ELSE {"ok", "nonok", "throw"}

\* fetchProfile: if (res.ok) setProfile(await res.json())
fetchProfile(p, tk, out) == IF out = "ok" THEN ProfileRow(tk) ELSE p

\* fetchHistory: if (res.ok) setHistory(await res.json())
fetchHistory(h, tk, out) == IF out = "ok" THEN GenerationsOf(tk) ELSE h

\* ------------------------------------------------ dashboard: page-load effect
\* Mutant of DashGetUser: the guard tests error only, so a check that reports
\* no user falls through to setUser(null) and the fetches.
DashGetUserErrorOnly(t, k) ==
  /\ k \in Slots(t)
  /\ Ready(t)
  /\ k = 0 => ui[t].page = "dashboard"
  /\ FlowOf(t, k).initPc = "getUser"
  /\ \E res \in GetUserResults :
       IF res = "error"
       THEN Push(t, k, "landing", [FlowOf(t, k) EXCEPT !.initPc = "done"])
       ELSE Step(t, k, [ui[t] EXCEPT !.user = IF res = "none" THEN NoUser ELSE res],
                 [FlowOf(t, k) EXCEPT !.initPc = "getToken"])
  /\ UNCHANGED <<envVars, dbVars, dataVars>>

\* Mutant of DashGetUser: the guard redirects to the sign-in page, as
\* section 7 of the specification words it, instead of '/'.
DashGetUserToLogin(t, k) ==
  /\ k \in Slots(t)
  /\ Ready(t)
  /\ k = 0 => ui[t].page = "dashboard"
  /\ FlowOf(t, k).initPc = "getUser"
  /\ \E res \in GetUserResults :
       IF res \in {"none", "error"}
       THEN Push(t, k, "login", [FlowOf(t, k) EXCEPT !.initPc = "done"])
       ELSE Step(t, k, [ui[t] EXCEPT !.user = res],
                 [FlowOf(t, k) EXCEPT !.initPc = "getToken"])
  /\ UNCHANGED <<envVars, dbVars, dataVars>>

\* const { data: { user }, error } = await supabase.auth.getUser();
\* if (error || !user) { router.push('/'); return; }  setUser(user);
DashGetUser(t, k) ==
  /\ k \in Slots(t)
  /\ Ready(t)
  /\ k = 0 => ui[t].page = "dashboard"
  /\ FlowOf(t, k).initPc = "getUser"
  /\ \E res \in GetUserResults :
       IF res \in {"none", "error"}
       THEN Push(t, k, "landing", [FlowOf(t, k) EXCEPT !.initPc = "done"])
       ELSE Step(t, k, [ui[t] EXCEPT !.user = res],
                 [FlowOf(t, k) EXCEPT !.initPc = "getToken"])
  /\ UNCHANGED <<envVars, dbVars, dataVars>>

\* Mutant of DashInitToken: the fetches are issued without awaiting getUser.
DashInitTokenEarly(t, k) ==
  /\ k \in Slots(t)
  /\ Ready(t)
  /\ k = 0 => ui[t].page = "dashboard"
  /\ FlowOf(t, k).initPc \in {"getUser", "getToken"}
  /\ FlowOf(t, k).initP = "none"
  /\ Step(t, k, ui[t],
          [FlowOf(t, k) EXCEPT !.initPc = IF @ = "getToken" THEN "fetch" ELSE @,
                               !.initToken = getToken,
                               !.initP = "sent", !.initH = "sent"])
  /\ UNCHANGED <<envVars, dbVars, dataVars>>

\* const token = await getToken(); then both fetches of Promise.all are issued.
DashInitToken(t, k) ==
  /\ k \in Slots(t)
  /\ Ready(t)
  /\ k = 0 => ui[t].page = "dashboard"
  /\ FlowOf(t, k).initPc = "getToken"
  /\ LET token == getToken IN
       Step(t, k, ui[t],
            [FlowOf(t, k) EXCEPT !.initPc = "fetch", !.initToken = token,
                                 !.initP = "sent", !.initH = "sent"])
  /\ UNCHANGED <<envVars, dbVars, dataVars>>

\* The code after `await Promise.all([...])` of the page-load effect, applied
\* to the React state u and the flow f: setLoading(false), then the Stripe
\* redirect check, which shows the banner and issues the profile re-fetch.
InitAfterFetch(u, f) ==
  IF u.successParam
  THEN <<[u EXCEPT !.loading = FALSE, !.showSuccess = TRUE],
         [f EXCEPT !.initPc = "refetch", !.initP = "sent"]>>
  ELSE <<[u EXCEPT !.loading = FALSE], [f EXCEPT !.initPc = "done"]>>

\* One of the page-load effect's fetches settles.  which = "P" is fetchProfile
\* (of Promise.all or the re-fetch), which = "H" is fetchHistory.  A rejected
\* fetch rejects the effect's async function: nothing after the await runs.
InitSettle(u, f, which, out) ==
  LET u1 == IF which = "P"
            THEN [u EXCEPT !.profile = fetchProfile(@, f.initToken, out)]
            ELSE [u EXCEPT !.history = fetchHistory(@, f.initToken, out)]
      f1 == IF which = "P" THEN [f EXCEPT !.initP = "done"]
            ELSE [f EXCEPT !.initH = "done"]
  IN CASE f.initPc = "fetch" /\ out = "throw" -> <<u1, [f1 EXCEPT !.initPc = "dead"]>>
       [] f.initPc = "fetch" /\ out # "throw" ->
            IF f1.initP = "done" /\ f1.initH = "done"
            THEN InitAfterFetch(u1, f1) ELSE <<u1, f1>>
       [] f.initPc = "refetch" /\ out = "throw" -> <<u1, [f1 EXCEPT !.initPc = "dead"]>>
       [] f.initPc = "refetch" /\ out # "throw" ->
            \* window.history.replaceState({}, '', '/dashboard')
            <<[u1 EXCEPT !.successParam = FALSE], [f1 EXCEPT !.initPc = "done"]>>
       [] OTHER -> <<u1, f1>>

\* GET /profile of the page-load effect settles.  The effect of a replaced
\* dashboard reads window.location.search of the tab as it is then.
DashInitProfile(t, k) ==
  /\ k \in Slots(t)
  /\ Ready(t)
  /\ k = 0 => ui[t].page = "dashboard"
  /\ FlowOf(t, k).initP = "sent"
  /\ \E out \in GetOutcomes(FlowOf(t, k).initToken) :
       LET r == InitSettle(ui[t], FlowOf(t, k), "P", out) IN Step(t, k, r[1], r[2])
  /\ UNCHANGED <<envVars, dbVars, dataVars>>

DashInitHistory(t, k) ==
  /\ k \in Slots(t)
  /\ Ready(t)
  /\ k = 0 => ui[t].page = "dashboard"
  /\ FlowOf(t, k).initH = "sent"
  /\ \E out \in GetOutcomes(FlowOf(t, k).initToken) :
       LET r == InitSettle(ui[t], FlowOf(t, k), "H", out) IN Step(t, k, r[1], r[2])
  /\ UNCHANGED <<envVars, dbVars, dataVars>>

\* ------------------------------------------------------------ String.trim
RECURSIVE TrimStart(_)
TrimStart(s) == IF s # <<>> /\ Head(s) = " " THEN TrimStart(Tail(s)) ELSE s

RECURSIVE TrimEnd(_)
TrimEnd(s) ==
  IF s # <<>> /\ s[Len(s)] = " " THEN TrimEnd(SubSeq(s, 1, Len(s) - 1)) ELSE s

trim(s) == TrimEnd(TrimStart(s))

\* ------------------------------------------- backend: POST /generate-quotes
\* Mutant of Gate: the free tier compared with <= instead of <.
GateOffByOne(u) == is_subscribed[u] \/ usage_count[u] <= 1

\* The entitlement gate of section 4.1, on the identity record of user u.
Gate(u) == is_subscribed[u] \/ usage_count[u] < 1

\* How a POST /generate-quotes with bearer token tk can end.  Without a token
\* the backend answers non-OK; with the gate closed it answers 402; otherwise
\* the generation succeeds or fails.  The fetch itself may be rejected; the
\* request then counts as not handled (one outcome per call, section 7).
GenerateOutcomes(tk) ==
  IF tk = EmptyToken THEN {"error", "throw"}
  ELSE IF ~Gate(tk) THEN {"402", "throw"}
  ELSE {"error", "throw"} \cup
       (IF usage_count[tk] < MaxUsage /\ Len(generations) < MaxGen THEN {"ok"} ELSE {})

\* recordGeneration: one increment and one appended row, together.
recordGeneration(u) ==
  /\ usage_count' = [usage_count EXCEPT ![u] = @ + 1]
  /\ generations' = Append(generations, u)
  /\ is_subscribed' = is_subscribed
  /\ lastOp' = [kind |-> "generation", caller |-> "service", owner |-> u]

\* The backend handles the POST of slot k of tab t in one transaction: gate
\* check and, on success of the generation, the increment and the record.
BackendGenerate(t, k) ==
  /\ k \in Slots(t)
  /\ FlowOf(t, k).genPc = "post"
  /\ \E out \in GenerateOutcomes(FlowOf(t, k).genToken) :
       /\ IF k = 0
          THEN /\ flow' = [flow EXCEPT ![t].genPc = "resp", ![t].genResp = out]
               /\ old' = old
          ELSE /\ flow' = flow
               /\ old' = [old EXCEPT ![t][k].f.genPc = "resp", ![t][k].f.genResp = out]
       /\ IF out = "ok" THEN recordGeneration(FlowOf(t, k).genToken)
          ELSE UNCHANGED <<dbVars, lastOp>>
  /\ UNCHANGED <<envVars, seenProfiles, seenGenerations, ui>>

\* --------------------------------------------------- dashboard: handleGenerate
\* Mutant of handleGenerate: the guards test the fields without trim().
handleGenerateNoTrim(t, inputType, bookTitle, snippet) ==
  /\ Ready(t)
  /\ ActionButton(t) = "generate"
  /\ ~ui[t].generating
  /\ IF inputType = "book_title" /\ bookTitle = <<>>
     THEN /\ ui' = [ui EXCEPT ![t].alertMsg = "title",
                              ![t].form = Form(inputType, bookTitle, snippet)]
          /\ flow' = flow
     ELSE IF inputType = "text_snippet" /\ snippet = <<>>
     THEN /\ ui' = [ui EXCEPT ![t].alertMsg = "snippet",
                              ![t].form = Form(inputType, bookTitle, snippet)]
          /\ flow' = flow
     ELSE /\ ui' = [ui EXCEPT ![t].generating = TRUE, ![t].downloaded = FALSE,
                              ![t].form = Form(inputType, bookTitle, snippet)]
          /\ flow' = [flow EXCEPT ![t].genPc = "getToken"]
  /\ UNCHANGED <<envVars, dbVars, dataVars, old>>

\* The click on "Generate Quotes PDF" with the form as filled in: the two
\* validation guards, then setGenerating(true) and `await getToken()`.
handleGenerate(t, inputType, bookTitle, snippet) ==
  /\ Ready(t)
  /\ ActionButton(t) = "generate"
  /\ ~ui[t].generating                     \* the button is disabled
  /\ IF inputType = "book_title" /\ trim(bookTitle) = <<>>
     THEN /\ ui' = [ui EXCEPT ![t].alertMsg = "title",
                              ![t].form = Form(inputType, bookTitle, snippet)]
          /\ flow' = flow
     ELSE IF inputType = "text_snippet" /\ trim(snippet) = <<>>
     THEN /\ ui' = [ui EXCEPT ![t].alertMsg = "snippet",
                              ![t].form = Form(inputType, bookTitle, snippet)]
          /\ flow' = flow
     ELSE /\ ui' = [ui EXCEPT ![t].generating = TRUE, ![t].downloaded = FALSE,
                              ![t].form = Form(inputType, bookTitle, snippet)]
          /\ flow' = [flow EXCEPT ![t].genPc = "getToken"]
  /\ UNCHANGED <<envVars, dbVars, dataVars, old>>

\* const token = await getToken(); the POST is issued with it.
GenerateToken(t, k) ==
  /\ k \in Slots(t)
  /\ Ready(t)
  /\ k = 0 => ui[t].page = "dashboard"
  /\ FlowOf(t, k).genPc = "getToken"
  /\ LET token == getToken IN
       Step(t, k, [ui[t] EXCEPT !.form = NoForm],
            [FlowOf(t, k) EXCEPT !.genPc = "post", !.genToken = token])
  /\ UNCHANGED <<envVars, dbVars, dataVars>>

\* Mutant of GenerateResponse: the !res.ok check is missing, so a non-OK
\* answer other than 402 is downloaded and followed by the refresh.
GenerateResponseNoOkCheck(u, f) ==
  CASE f.genResp = "402" ->
         <<[u EXCEPT !.alertMsg = "limit"],
           [f EXCEPT !.genPc = "alert", !.genResp = "none", !.genToken = EmptyToken]>>
    [] f.genResp = "throw" ->
         <<[u EXCEPT !.alertMsg = "retry"],
           [f EXCEPT !.genPc = "alert", !.genResp = "none", !.genToken = EmptyToken]>>
    [] OTHER ->
         <<[u EXCEPT !.downloaded = TRUE],
           [f EXCEPT !.genPc = "refreshToken", !.genResp = "none",
                     !.genToken = EmptyToken]>>

\* Mutant of GenerateResponse: the 402 check is missing, so the entitlement
\* answer falls into the generic !res.ok branch.
GenerateResponseNo402(u, f) ==
  CASE f.genResp \in {"402", "error"} ->
         <<[u EXCEPT !.alertMsg = "error"],
           [f EXCEPT !.genPc = "alert", !.genResp = "none", !.genToken = EmptyToken]>>
    [] f.genResp = "throw" ->
         <<[u EXCEPT !.alertMsg = "retry"],
           [f EXCEPT !.genPc = "alert", !.genResp = "none", !.genToken = EmptyToken]>>
    [] OTHER ->
         <<[u EXCEPT !.downloaded = TRUE],
           [f EXCEPT !.genPc = "refreshToken", !.genResp = "none",
                     !.genToken = EmptyToken]>>

\* The code of handleGenerate after the POST settled, on page state u and
\* flows f: the 402 branch, the !res.ok branch and the catch branch call
\* alert(), which returns when the dialog is dismissed; otherwise the
\* download, followed by `await getToken()`.
GenerateResponse(u, f) ==
  CASE f.genResp = "402" ->
         <<[u EXCEPT !.alertMsg = "limit"],
           [f EXCEPT !.genPc = "alert", !.genResp = "none", !.genToken = EmptyToken]>>
    [] f.genResp = "error" ->
         <<[u EXCEPT !.alertMsg = "error"],
           [f EXCEPT !.genPc = "alert", !.genResp = "none", !.genToken = EmptyToken]>>
    [] f.genResp = "throw" ->
         <<[u EXCEPT !.alertMsg = "retry"],
           [f EXCEPT !.genPc = "alert", !.genResp = "none", !.genToken = EmptyToken]>>
    [] OTHER ->
         <<[u EXCEPT !.downloaded = TRUE],
           [f EXCEPT !.genPc = "refreshToken", !.genResp = "none",
                     !.genToken = EmptyToken]>>

GenerateSettle(t, k) ==
  /\ k \in Slots(t)
  /\ Ready(t)
  /\ k = 0 => ui[t].page = "dashboard"
  /\ FlowOf(t, k).genPc = "resp"
  /\ LET r == GenerateResponse(ui[t], FlowOf(t, k)) IN Step(t, k, r[1], r[2])
  /\ UNCHANGED <<envVars, dbVars, dataVars>>

\* const t = await getToken(); both refresh fetches are issued with it.
GenerateRefreshToken(t, k) ==
  /\ k \in Slots(t)
  /\ Ready(t)
  /\ k = 0 => ui[t].page = "dashboard"
  /\ FlowOf(t, k).genPc = "refreshToken"
  /\ LET token == getToken IN
       Step(t, k, ui[t],
            [FlowOf(t, k) EXCEPT !.genPc = "refresh", !.genToken = token,
                                 !.genP = "sent", !.genH = "sent"])
  /\ UNCHANGED <<envVars, dbVars, dataVars>>

\* One of the refresh fetches settles.  A rejected fetch rejects Promise.all:
\* the catch branch calls alert() while the other fetch is still in flight.
\* After the last of both, handleGenerate ends with finally.
RefreshSettle(u, f, which, out) ==
  LET u1 == IF which = "P"
            THEN [u EXCEPT !.profile = fetchProfile(@, f.genToken, out)]
            ELSE [u EXCEPT !.history = fetchHistory(@, f.genToken, out)]
      f1 == IF which = "P" THEN [f EXCEPT !.genP = "done"]
            ELSE [f EXCEPT !.genH = "done"]
      other == IF which = "P" THEN f.genH ELSE f.genP
      left == IF other = "sent" THEN "sent" ELSE "none"
  IN CASE f.genPc = "refresh" /\ out = "throw" ->
            <<[u1 EXCEPT !.alertMsg = "retry"],
              IF which = "P"
              THEN [f EXCEPT !.genPc = "alert", !.genP = "none", !.genH = left]
              ELSE [f EXCEPT !.genPc = "alert", !.genH = "none", !.genP = left]>>
       [] f.genPc = "refresh" /\ out # "throw" /\ other = "done" ->
            <<[u1 EXCEPT !.generating = FALSE],
              [f1 EXCEPT !.genPc = "idle", !.genP = "none", !.genH = "none",
                         !.genToken = EmptyToken]>>
       [] f.genPc = "refresh" /\ out # "throw" /\ other # "done" -> <<u1, f1>>
       \* the fetch left in flight by a rejected Promise.all
       [] OTHER -> <<u1, [f1 EXCEPT !.genP = "none", !.genH = "none",
                                    !.genToken = EmptyToken]>>

\* The flows of the mounted page without the refresh fetch that a rejected
\* Promise.all left in flight: handleGenerate is over for it.
WithoutLeft(f) ==
  IF f.genPc = "alert"
  THEN [f EXCEPT !.genP = "none", !.genH = "none", !.genToken = EmptyToken]
  ELSE f

\* The refresh fetch that a rejected Promise.all left in flight, as an entry
\* of old: it still sets the state of its page when it settles.
LeftInFlight(f) ==
  IF f.genPc = "alert" /\ (f.genP = "sent" \/ f.genH = "sent")
  THEN <<[f |-> [FlowState("closed") EXCEPT !.genP = f.genP, !.genH = f.genH,
                                            !.genToken = f.genToken],
          mounted |-> TRUE]>>
  ELSE <<>>

\* The step of a refresh fetch of slot k that computed u1 and f1.
RefreshStep(t, k, u1, f1) ==
  IF k = 0
  THEN /\ ui' = [ui EXCEPT ![t] = u1]
       /\ flow' = [flow EXCEPT ![t] = WithoutLeft(f1)]
       /\ old' = [old EXCEPT ![t] = @ \o LeftInFlight(f1)]
       /\ OldCalls(old'[t]) <= MaxOld
  ELSE Step(t, k, u1, f1)

GenerateRefreshProfile(t, k) ==
  /\ k \in Slots(t)
  /\ Ready(t)
  /\ k = 0 => ui[t].page = "dashboard"
  /\ FlowOf(t, k).genP = "sent"
  /\ \E out \in GetOutcomes(FlowOf(t, k).genToken) :
       LET r == RefreshSettle(ui[t], FlowOf(t, k), "P", out) IN
         RefreshStep(t, k, r[1], r[2])
  /\ UNCHANGED <<envVars, dbVars, dataVars>>

GenerateRefreshHistory(t, k) ==
  /\ k \in Slots(t)
  /\ Ready(t)
  /\ k = 0 => ui[t].page = "dashboard"
  /\ FlowOf(t, k).genH = "sent"
  /\ \E out \in GetOutcomes(FlowOf(t, k).genToken) :
       LET r == RefreshSettle(ui[t], FlowOf(t, k), "H", out) IN
         RefreshStep(t, k, r[1], r[2])
  /\ UNCHANGED <<envVars, dbVars, dataVars>>

\* ---------------------------------------------------- dashboard: handleUpgrade
\* The click on "Upgrade to Pro": setUpgrading(true) and `await getToken()`.
handleUpgrade(t) ==
  /\ Ready(t)
  /\ ActionButton(t) = "upgrade"
  /\ ~ui[t].upgrading                      \* the button is disabled
  /\ ui' = [ui EXCEPT ![t].upgrading = TRUE]
  /\ flow' = [flow EXCEPT ![t].upPc = "getToken"]
  /\ UNCHANGED <<envVars, dbVars, dataVars, old>>

\* const token = await getToken(); the POST is issued with it.
UpgradeToken(t, k) ==
  /\ k \in Slots(t)
  /\ Ready(t)
  /\ k = 0 => ui[t].page = "dashboard"
  /\ FlowOf(t, k).upPc = "getToken"
  /\ LET token == getToken IN
       Step(t, k, ui[t], [FlowOf(t, k) EXCEPT !.upPc = "post", !.upToken = token])
  /\ UNCHANGED <<envVars, dbVars, dataVars>>

\* How POST /create-checkout-session with bearer token tk can end: a body
\* with a url, a body without one, or a rejected fetch / unparsable body.
CheckoutOutcomes(tk) == IF tk = EmptyToken THEN {"nourl", "throw"} ELSE {"url", "nourl", "throw"}

\* const data = await res.json(); if (data.url) window.location.href = data.url
\* else alert(...); catch alert(...).
UpgradeSettle(t, k) ==
  /\ k \in Slots(t)
  /\ Ready(t)
  /\ k = 0 => ui[t].page = "dashboard"
  /\ FlowOf(t, k).upPc = "post"
  /\ \E out \in CheckoutOutcomes(FlowOf(t, k).upToken) :
       IF out = "url" THEN Load(t, "checkout", FALSE)
       ELSE Step(t, k,
                 [ui[t] EXCEPT !.alertMsg = IF out = "nourl" THEN "checkout_failed"
                                            ELSE "wrong"],
                 [FlowOf(t, k) EXCEPT !.upPc = "alert", !.upToken = EmptyToken])
  /\ UNCHANGED <<envVars, dbVars, dataVars>>

\* The code that runs when alert() returns, on page state u and flows f:
\* finally { setGenerating(false) } of handleGenerate, finally
\* { setUpgrading(false) } of handleUpgrade, setLoading(false) of the auth
\* page's handleSubmit.
AfterAlert(u, f) ==
  CASE f.genPc = "alert" -> <<[u EXCEPT !.generating = FALSE], [f EXCEPT !.genPc = "idle"]>>
    [] f.upPc = "alert" -> <<[u EXCEPT !.upgrading = FALSE], [f EXCEPT !.upPc = "idle"]>>
    [] f.authPc = "alert" -> <<[u EXCEPT !.loading = FALSE], [f EXCEPT !.authPc = "idle"]>>
    [] OTHER -> <<u, f>>

\* The slots whose call is inside alert().
Alerting(t) ==
  {k \in Slots(t) : \/ FlowOf(t, k).genPc = "alert"
                    \/ FlowOf(t, k).upPc = "alert"
                    \/ FlowOf(t, k).authPc = "alert"}

\* The user dismisses the alert() dialog: the call that raised it goes on.
\* The validation alerts of handleGenerate are followed by return.
DismissAlert(t) ==
  /\ ~Ready(t)
  /\ IF Alerting(t) = {}
     THEN /\ ui' = [ui EXCEPT ![t].alertMsg = "none", ![t].form = NoForm]
          /\ UNCHANGED <<flow, old>>
     ELSE \E k \in Alerting(t) :
            LET r == AfterAlert([ui[t] EXCEPT !.alertMsg = "none"], FlowOf(t, k))
            IN Step(t, k, r[1], r[2])
  /\ UNCHANGED <<envVars, dbVars, dataVars>>

\* ----------------------------------------------------- dashboard: handleLogout
\* The click on Logout: handleLogout up to `await supabase.auth.signOut()`.
\* The button is never disabled.
handleLogout(t) ==
  /\ Ready(t)
  /\ View(t) = "protected"
  /\ flow[t].outN < MaxSignOut
  /\ flow' = [flow EXCEPT ![t].outN = @ + 1]
  /\ UNCHANGED <<envVars, dbVars, dataVars, ui, old>>

\* A signOut call of handleLogout resolves: the session is removed, then
\* router.push('/').
LogoutSettle(t, k) ==
  /\ k \in Slots(t)
  /\ Ready(t)
  /\ k = 0 => ui[t].page = "dashboard"
  /\ FlowOf(t, k).outN > 0
  /\ authSession' = NoSession
  /\ Push(t, k, "landing", [FlowOf(t, k) EXCEPT !.outN = @ - 1])
  /\ UNCHANGED <<paid, dbVars, dataVars>>

\* X of the success banner: setShowSuccess(false)
DismissBanner(t) ==
  /\ Ready(t)
  /\ BannerVisible(t)
  /\ ui' = [ui EXCEPT ![t].showSuccess = FALSE]
  /\ UNCHANGED <<envVars, dbVars, dataVars, flow, old>>

\* ------------------------------------------------ billing provider (external)
\* The hosted checkout is paid and returns to /dashboard?success=true; the
\* webhook that sets the subscription flag arrives on its own.
CheckoutPaid(t) ==
  /\ ui[t].page = "checkout"
  /\ paid' = TRUE
  /\ Load(t, "dashboard", TRUE)
  /\ UNCHANGED <<authSession, dbVars, dataVars>>

\* The hosted checkout is abandoned and returns without the success parameter.
CheckoutCanceled(t) ==
  /\ ui[t].page = "checkout"
  /\ Load(t, "dashboard", FALSE)
  /\ UNCHANGED <<envVars, dbVars, dataVars>>

\* The confirmed billing event: the backend's webhook handler sets the flag.
billingEvent(u) ==
  /\ is_subscribed' = [is_subscribed EXCEPT ![u] = TRUE]
  /\ lastOp' = [kind |-> "billing", caller |-> "service", owner |-> u]
  /\ UNCHANGED <<usage_count, generations>>

BillingConfirm ==
  /\ paid
  /\ paid' = FALSE
  /\ billingEvent(Me)
  /\ UNCHANGED <<authSession, seenProfiles, seenGenerations, tabVars>>

\* --------------------------------------------- session provider (external)
\* The session expires, or is signed out in another browser window.
SessionExpire ==
  /\ authSession # NoSession
  /\ authSession' = NoSession
  /\ UNCHANGED <<paid, dbVars, dataVars, tabVars>>

\* ------------------------------------------------------------ landing page
\* const { data: { user } } = await supabase.auth.getUser(); setUser(user)
LandingGetUser(t) ==
  /\ Ready(t)
  /\ ui[t].page = "landing"
  /\ flow[t].initPc = "getUser"
  /\ \E res \in GetUserResults :
       ui' = [ui EXCEPT ![t].user = IF res \in {"none", "error"} THEN NoUser ELSE res]
  /\ flow' = [flow EXCEPT ![t].initPc = "done"]
  /\ UNCHANGED <<envVars, dbVars, dataVars, old>>

\* <Link href="/login">: rendered when user is null
LandingLogin(t) ==
  /\ Ready(t)
  /\ View(t) = "login_prompt"
  /\ Navigate(t, "login", flow[t])
  /\ UNCHANGED <<envVars, dbVars, dataVars>>

\* <Link href="/dashboard">: rendered when user is set
LandingResume(t) ==
  /\ Ready(t)
  /\ View(t) = "resume"
  /\ Navigate(t, "dashboard", flow[t])
  /\ UNCHANGED <<envVars, dbVars, dataVars>>

\* --------------------------------------------------------------- auth page
\* checkUser: setUser(user); setLoading(false)
AuthCheckUser(t) ==
  /\ Ready(t)
  /\ ui[t].page = "login"
  /\ flow[t].initPc = "getUser"
  /\ \E res \in GetUserResults :
       ui' = [ui EXCEPT ![t].user = IF res \in {"none", "error"} THEN NoUser ELSE res,
                        ![t].loading = FALSE]
  /\ flow' = [flow EXCEPT ![t].initPc = "done"]
  /\ UNCHANGED <<envVars, dbVars, dataVars, old>>

\* handleSubmit up to its await: setLoading(true), then signUp or
\* signInWithPassword is called.
handleSubmit(t, isSignUp) ==
  /\ Ready(t)
  /\ View(t) = "login_form"
  /\ ui' = [ui EXCEPT ![t].loading = TRUE]
  /\ flow' = [flow EXCEPT ![t].authPc = IF isSignUp THEN "signUp" ELSE "signIn"]
  /\ UNCHANGED <<envVars, dbVars, dataVars, old>>

\* signUp resolved: alert(error.message) or alert('Success! ...');
\* setLoading(false) follows when alert() returns.
AuthSignUpSettle(t, k) ==
  /\ k \in Slots(t)
  /\ Ready(t)
  /\ k = 0 => ui[t].page = "login"
  /\ FlowOf(t, k).authPc = "signUp"
  /\ \E ok \in BOOLEAN :
       Step(t, k, [ui[t] EXCEPT !.alertMsg = IF ok THEN "signup_ok" ELSE "auth_error"],
            [FlowOf(t, k) EXCEPT !.authPc = "alert"])
  /\ UNCHANGED <<envVars, dbVars, dataVars>>

\* signInWithPassword resolved: alert(error.message), with setLoading(false)
\* when alert() returns; or the session is stored and router.push('/dashboard')
\* is followed by setLoading(false) at once.
AuthSignInSettle(t, k) ==
  /\ k \in Slots(t)
  /\ Ready(t)
  /\ k = 0 => ui[t].page = "login"
  /\ FlowOf(t, k).authPc = "signIn"
  /\ \E ok \in BOOLEAN :
       IF ok
       THEN /\ authSession' = Me
            /\ Push(t, k, "dashboard", [FlowOf(t, k) EXCEPT !.authPc = "idle"])
       ELSE /\ authSession' = authSession
            /\ Step(t, k, [ui[t] EXCEPT !.alertMsg = "auth_error"],
                    [FlowOf(t, k) EXCEPT !.authPc = "alert"])
  /\ UNCHANGED <<paid, dbVars, dataVars>>

\* The click on Logout of the auth page: its handleLogout up to
\* `await supabase.auth.signOut()`.  The button is never disabled.
AuthLogout(t) ==
  /\ Ready(t)
  /\ View(t) = "welcome"
  /\ flow[t].authOutN < MaxSignOut
  /\ flow' = [flow EXCEPT ![t].authOutN = @ + 1]
  /\ UNCHANGED <<envVars, dbVars, dataVars, ui, old>>

\* A signOut call of the auth page's handleLogout resolves: the session is
\* removed, then setUser(null); router.refresh(), which re-renders the route
\* that is displayed and keeps the client state.
AuthLogoutSettle(t, k) ==
  /\ k \in Slots(t)
  /\ Ready(t)
  /\ k = 0 => ui[t].page = "login"
  /\ FlowOf(t, k).authOutN > 0
  /\ authSession' = NoSession
  /\ Step(t, k, [ui[t] EXCEPT !.user = NoUser],
          [FlowOf(t, k) EXCEPT !.authOutN = @ - 1])
  /\ UNCHANGED <<paid, dbVars, dataVars>>

\* "Go to Dashboard": router.push('/dashboard')
AuthGoDashboard(t) ==
  /\ Ready(t)
  /\ View(t) = "welcome"
  /\ Navigate(t, "dashboard", flow[t])
  /\ UNCHANGED <<envVars, dbVars, dataVars>>

\* ------------------------------------------------------------------- Spec
\* The application as its users reach it: pages, backend, billing, sessions.
Next ==
  \/ \E t \in Tabs :
       \/ \E it \in InputTypes, bt \in Texts, sn \in Texts : handleGenerate(t, it, bt, sn)
       \/ \E k \in 0..MaxOld :
            \/ DashGetUser(t, k) \/ DashInitToken(t, k)
            \/ DashInitProfile(t, k) \/ DashInitHistory(t, k)
            \/ LogoutSettle(t, k) \/ AuthLogoutSettle(t, k)
            \/ AuthSignUpSettle(t, k) \/ AuthSignInSettle(t, k)
            \/ GenerateToken(t, k) \/ BackendGenerate(t, k) \/ GenerateSettle(t, k)
            \/ GenerateRefreshToken(t, k)
            \/ GenerateRefreshProfile(t, k) \/ GenerateRefreshHistory(t, k)
            \/ UpgradeToken(t, k) \/ UpgradeSettle(t, k)
       \/ handleUpgrade(t)
       \/ handleLogout(t) \/ DismissBanner(t) \/ DismissAlert(t)
       \/ CheckoutPaid(t) \/ CheckoutCanceled(t)
       \/ LandingGetUser(t) \/ LandingLogin(t) \/ LandingResume(t)
       \/ AuthCheckUser(t) \/ AuthGoDashboard(t) \/ AuthLogout(t)
       \/ \E su \in BOOLEAN : handleSubmit(t, su)
  \/ BillingConfirm
  \/ SessionExpire

Spec == Init /\ [][Next]_vars

\* ----------------------------------------------------------- SpecSessions
\* Two dashboard sessions of the same signed-in user, opened side by side,
\* against the one backend; a paid checkout may be waiting for its webhook.
InitSessions ==
  /\ authSession = Me
  /\ paid \in BOOLEAN
  /\ InitWith([t \in Tabs |-> "dashboard"])

\* Both sessions click Generate with both fields filled in, so that every
\* click is a generation attempt.
NextSessions ==
  \/ \E t \in Tabs :
       \/ \E it \in InputTypes : handleGenerate(t, it, <<" ", "G", " ">>, <<" ", "G", " ">>)
       \/ \E k \in 0..MaxOld :
            \/ DashGetUser(t, k) \/ DashInitToken(t, k)
            \/ DashInitProfile(t, k) \/ DashInitHistory(t, k)
            \/ GenerateToken(t, k) \/ BackendGenerate(t, k) \/ GenerateSettle(t, k)
            \/ GenerateRefreshToken(t, k)
            \/ GenerateRefreshProfile(t, k) \/ GenerateRefreshHistory(t, k)
       \/ DismissAlert(t)
  \/ BillingConfirm

SpecSessions == InitSessions /\ [][NextSessions]_vars

\* --------------------------------------------------- row level security
\* create policy "Users can view own profile" ... using (auth.uid() = id)
ViewOwnProfile(uid, id) == uid = id

\* create policy "Users can update own profile" ... using (auth.uid() = id);
\* without a WITH CHECK clause the USING expression also checks the new row.
UpdateOwnProfile(uid, id) == uid = id

\* create policy "Users can view own generations" ... using (auth.uid() = user_id)
ViewOwnGenerations(uid, user_id) == uid = user_id

\* Mutant of InsertOwnGenerations: the policy checks nothing.
InsertAnyGenerations(uid, user_id) == TRUE

\* create policy "Users can insert own generations" ... with check (auth.uid() = user_id)
InsertOwnGenerations(uid, user_id) == uid = user_id

\* select id from profiles, as user uid
DataSelectProfiles(uid) ==
  /\ seenProfiles' = [seenProfiles EXCEPT ![uid] = {id \in Users : ViewOwnProfile(uid, id)}]
  /\ UNCHANGED <<envVars, dbVars, seenGenerations, lastOp, tabVars>>

\* update profiles set usage_count = n, is_subscribed = b where id = target,
\* as user uid.  The policies name no column: every column of a row that
\* passes them can be set.  A row that does not pass is not updated.
DataUpdateProfile(uid, target, n, b) ==
  LET rows == {id \in {target} : ViewOwnProfile(uid, id) /\ UpdateOwnProfile(uid, id)} IN
    /\ usage_count' = [id \in Users |-> IF id \in rows THEN n ELSE usage_count[id]]
    /\ is_subscribed' = [id \in Users |-> IF id \in rows THEN b ELSE is_subscribed[id]]
    /\ lastOp' = IF rows = {} THEN lastOp
                 ELSE [kind |-> "update", caller |-> uid, owner |-> target]
    /\ UNCHANGED <<envVars, generations, seenProfiles, seenGenerations, tabVars>>

\* select * from quote_generations, as user uid
DataSelectGenerations(uid) ==
  /\ seenGenerations' = [seenGenerations EXCEPT ![uid] =
        {i \in 1..Len(generations) : ViewOwnGenerations(uid, generations[i])}]
  /\ UNCHANGED <<envVars, dbVars, seenProfiles, lastOp, tabVars>>

\* insert into quote_generations (user_id, ...) values (user_id, ...), as user
\* uid: the row is added when it passes the policy's check, refused otherwise.
DataInsertGeneration(uid, user_id) ==
  /\ Len(generations) < MaxGen
  /\ IF InsertOwnGenerations(uid, user_id)
     THEN /\ generations' = Append(generations, user_id)
          /\ lastOp' = [kind |-> "insert", caller |-> uid, owner |-> user_id]
     ELSE UNCHANGED <<generations, lastOp>>
  /\ UNCHANGED <<envVars, usage_count, is_subscribed, seenProfiles, seenGenerations, tabVars>>

\* The backend (service role) records a successful generation of user u.
ServiceGeneration(u) ==
  /\ Gate(u)
  /\ usage_count[u] < MaxUsage /\ Len(generations) < MaxGen
  /\ recordGeneration(u)
  /\ UNCHANGED <<envVars, seenProfiles, seenGenerations, tabVars>>

\* The backend (service role) handles the billing webhook of user u.
ServiceBilling(u) ==
  /\ billingEvent(u)
  /\ UNCHANGED <<envVars, seenProfiles, seenGenerations, tabVars>>

\* ----------------------------------------------------------------- SpecData
\* The database as its writers reach it: every user directly through the
\* row policies, and the backend with the service role.
InitData ==
  /\ authSession = NoSession
  /\ paid = FALSE
  /\ InitWith([t \in Tabs |-> "closed"])

NextData ==
  \/ \E uid \in Users :
       \/ DataSelectProfiles(uid)
       \/ DataSelectGenerations(uid)
       \/ \E target \in Users, n \in 0..MaxUsage, b \in BOOLEAN :
            DataUpdateProfile(uid, target, n, b)
       \/ \E user_id \in Users : DataInsertGeneration(uid, user_id)
  \/ \E u \in Users : ServiceGeneration(u) \/ ServiceBilling(u)

SpecData == InitData /\ [][NextData]_vars

\* ================================================================ claims
FailedResponses == {"402", "error", "throw"}

\* C1: for every (usage_count, is_subscribed) canGenerate is true iff the
\* user is subscribed or has used no generation, and the dashboard offers the
\* Generate button exactly then, the Upgrade button otherwise.
C1_CanGenerateIffEntitled ==
  /\ \A n \in 0..MaxUsage, b \in BOOLEAN :
       canGenerate([loaded |-> TRUE, usage_count |-> n, is_subscribed |-> b])
         <=> (b \/ n = 0)
  /\ \A t \in Tabs :
       (View(t) = "protected" /\ ui[t].profile.loaded) =>
         LET entitled == ui[t].profile.is_subscribed \/ ui[t].profile.usage_count = 0
         IN /\ (ActionButton(t) = "generate") <=> entitled
            /\ (ActionButton(t) = "upgrade") <=> ~entitled

\* C1 witness: a dashboard whose loaded profile has the free generation used
\* and no subscription shows the Upgrade button.
C1_Witness ==
  \E t \in Tabs :
    /\ View(t) = "protected" /\ ui[t].profile.loaded
    /\ ui[t].profile.usage_count = 1 /\ ~ui[t].profile.is_subscribed
    /\ ActionButton(t) = "upgrade"

\* C2: whatever the interleaving of the generation attempts of two dashboard
\* sessions of one user, while the user is not subscribed at most one
\* generation is recorded and usage_count is at most 1.
C2_AtMostOneFreeGeneration ==
  ~is_subscribed[Me] =>
    (usage_count[Me] <= 1 /\ Cardinality(GenerationsOf(Me)) <= 1)

\* C2 witness: both sessions loaded usage_count 0 and posted; one was served
\* and downloaded, the other one holds the 402 answer.
C2_Witness ==
  \E a \in Tabs, b \in Tabs :
    /\ a # b
    /\ ~is_subscribed[Me] /\ usage_count[Me] = 1
    /\ ui[a].downloaded
    /\ flow[b].genPc = "resp" /\ flow[b].genResp = "402"
    /\ ui[b].profile.loaded /\ ui[b].profile.usage_count = 0

\* C3: usage_count changes only by a successful generation (+1) and
\* is_subscribed becomes true only by a confirmed billing event; no write of
\* the owning user through the row policies changes either.
C3_OnlyGenerationAndBilling ==
  [][\A u \in Users :
       /\ usage_count'[u] # usage_count[u] =>
            (lastOp'.kind = "generation" /\ usage_count'[u] = usage_count[u] + 1)
       /\ (~is_subscribed[u] /\ is_subscribed'[u]) => lastOp'.kind = "billing"]_vars

\* C4: while the session state of the mounted page is UNKNOWN no backend
\* request of that page is in flight, and a request of it is in flight only
\* after its getUser returned a user.  The same holds for a dashboard that
\* was replaced while its getUser was pending: it has issued no request.
C4_NoCallWhileUnknown ==
  \A t \in Tabs :
    /\ SessionState(t) = "UNKNOWN" => PageInFlight(t) = {}
    /\ PageInFlight(t) # {} => SessionState(t) = "AUTHENTICATED"
    /\ \A i \in 1..Len(old[t]) :
         old[t][i].f.initPc = "getUser" => Requests(old[t][i].f) = {}

\* C4 witness: the page-load effect passed getUser and has both fetches in flight.
C4_Witness ==
  \E t \in Tabs :
    /\ flow[t].initPc = "fetch"
    /\ {r.endpoint : r \in PageInFlight(t)} = {"GET /profile", "GET /history"}

\* C5: no backend request is issued without a bearer credential of a
\* current session.
C5_NoCallWithoutCredential ==
  \A t \in Tabs : \A r \in InFlight(t) : r.token # EmptyToken

\* C6: the "upgraded to Pro" banner is not visible while the profile re-fetch
\* that follows the checkout redirect has not resolved.
C6_NoBannerBeforeRefetch ==
  \A t \in Tabs : BannerVisible(t) => flow[t].initPc # "refetch"

\* C7: a generation call that fails (402, other non-OK answer, rejected
\* fetch) changes neither usage_count nor the generation rows, whichever
\* page issued it; and the failure branches of handleGenerate leave profile
\* and history as they are, trigger no download and issue no request: they
\* call alert(), and when it returns they reset the generating flag.  The
\* answer to a call is the step that changes that call and no other of the tab.
C7_FailedGenerationChangesNothing ==
  [][\A t \in Tabs :
       /\ \A k \in 0..MaxOld :
            (k \in Slots(t) /\ Slots(t)' = Slots(t)
              /\ (\A j \in Slots(t) \ {k} : FlowOf(t, j)' = FlowOf(t, j))
              /\ FlowOf(t, k).genPc = "post" /\ FlowOf(t, k)'.genPc = "resp"
              /\ FlowOf(t, k)'.genResp \in FailedResponses)
            => (usage_count' = usage_count /\ generations' = generations)
       /\ (flow[t].genPc = "resp" /\ flow[t].genResp \in FailedResponses
            /\ ui'[t].page = "dashboard" /\ flow'[t].genPc # "resp")
          => /\ ui'[t].profile = ui[t].profile
             /\ ui'[t].history = ui[t].history
             /\ ui'[t].downloaded = ui[t].downloaded
             /\ ui'[t].alertMsg # "none"
             /\ flow'[t].genPc = "alert"
             /\ InFlight(t)' \subseteq InFlight(t)
             /\ UNCHANGED <<usage_count, generations>>
       /\ (flow[t].genPc = "alert" /\ ui'[t].page = "dashboard"
            /\ flow'[t].genPc # "alert")
          => /\ ui'[t].profile = ui[t].profile
             /\ ui'[t].history = ui[t].history
             /\ ui'[t].downloaded = ui[t].downloaded
             /\ ~ui'[t].generating
             /\ flow'[t].genPc = "idle"
             /\ InFlight(t)' = InFlight(t)
             /\ UNCHANGED <<usage_count, generations>>]_vars

\* C7 witness: handleGenerate is in its !res.ok branch: the error alert is
\* up, nothing was downloaded and no generation is recorded.
C7_Witness ==
  \E t \in Tabs :
    /\ ui[t].page = "dashboard" /\ ui[t].alertMsg = "error"
    /\ flow[t].genPc = "alert"
    /\ ~ui[t].downloaded /\ generations = <<>>

\* C8: a generation attempted with the gate closed is answered 402 with the
\* account unchanged, whichever page issued it; the dashboard shows the
\* upgrade prompt, not the generic error or retry message, and ends the call
\* without issuing the request again.  The answer to a call is the step that
\* changes that call and no other of the tab.
C8_DeniedWithUpgradePrompt ==
  [][\A t \in Tabs :
       /\ \A k \in 0..MaxOld :
            (k \in Slots(t) /\ Slots(t)' = Slots(t)
              /\ (\A j \in Slots(t) \ {k} : FlowOf(t, j)' = FlowOf(t, j))
              /\ FlowOf(t, k).genPc = "post" /\ FlowOf(t, k)'.genPc = "resp"
              /\ FlowOf(t, k).genToken # EmptyToken /\ ~Gate(FlowOf(t, k).genToken)
              /\ FlowOf(t, k)'.genResp # "throw")
            => (FlowOf(t, k)'.genResp = "402" /\ UNCHANGED dbVars)
       /\ (flow[t].genPc = "resp" /\ flow[t].genResp = "402"
            /\ ui'[t].page = "dashboard" /\ flow'[t].genPc # "resp")
          => /\ ui'[t].alertMsg = "limit"
             /\ flow'[t].genPc = "alert"
             /\ \A r \in PageInFlight(t)' : r.endpoint # "POST /generate-quotes"
             /\ UNCHANGED dbVars
       /\ (flow[t].genPc = "alert" /\ ui[t].alertMsg = "limit"
            /\ ui'[t].page = "dashboard" /\ flow'[t].genPc # "alert")
          => /\ flow'[t].genPc = "idle"
             /\ \A r \in PageInFlight(t)' : r.endpoint # "POST /generate-quotes"
             /\ UNCHANGED dbVars]_vars

\* C8 witness: the free generation is used, the user is not subscribed, and
\* a dashboard shows the upgrade prompt after its attempt.
C8_Witness ==
  \E t \in Tabs :
    /\ ui[t].page = "dashboard" /\ ui[t].alertMsg = "limit"
    /\ ~is_subscribed[Me] /\ usage_count[Me] >= 1
    /\ flow[t].genPc = "alert"

\* C9: every row a user reads, and every row a user updates or inserts
\* through the row policies, is the user's own.
C9_RowOwnership ==
  /\ \A a \in Users :
       /\ seenProfiles[a] \subseteq {a}
       /\ \A i \in seenGenerations[a] : generations[i] = a
  /\ lastOp.kind \in {"update", "insert"} => lastOp.caller = lastOp.owner

\* C9 witness: a user has read the own profile and the own generation rows and
\* the last write is that user's update, with another user's rows in the table.
C9_Witness ==
  \E a \in Users, b \in Users :
    /\ a # b
    /\ seenProfiles[a] = {a} /\ seenGenerations[a] # {}
    /\ GenerationsOf(b) # {}
    /\ lastOp.kind = "update" /\ lastOp.caller = a

\* C10: on every page that holds a session view, while the session state is
\* UNKNOWN the page shows its loading state.
C10_LoadingWhileUnknown ==
  \A t \in Tabs :
    (ui[t].page \in {"dashboard", "login", "landing"} /\ SessionState(t) = "UNKNOWN")
      => View(t) = "loading"

\* C11: a click on Generate whose required field (the title for book_title,
\* the snippet for text_snippet) is empty or blanks only ends in the
\* validation alert of that field with handleGenerate not started: generating
\* is not set, no getSession call is awaited and no POST is in flight.  The
\* other field plays no part: with the required field filled in, the call
\* proceeds to getToken whatever the other field holds.
C11_MissingInputRejectedLocally ==
  \A t \in Tabs :
    LET f == ui[t].form
        required == IF f.inputType = "book_title" THEN f.bookTitle ELSE f.snippet
        missing == \A i \in 1..Len(required) : required[i] = " "
    IN f.inputType # "none" =>
         IF missing
         THEN /\ ui[t].alertMsg = (IF f.inputType = "book_title" THEN "title" ELSE "snippet")
              /\ ~ui[t].generating
              /\ flow[t].genPc = "idle"
              /\ \A r \in PageInFlight(t) : r.endpoint # "POST /generate-quotes"
         ELSE /\ ui[t].generating
              /\ flow[t].genPc = "getToken"

\* C11 witness: a book_title click with a blanks-only title and a filled-in
\* snippet was rejected with the title alert.
C11_Witness ==
  \E t \in Tabs :
    /\ ui[t].form = Form("book_title", <<" ", " ">>, <<" ", "G", " ">>)
    /\ ui[t].alertMsg = "title"
    /\ ~ui[t].generating /\ flow[t].genPc = "idle"

\* C12: when the dashboard's session view leaves AUTHENTICATED, or the
\* dashboard signs the session out, the tab goes to the landing page '/'; and
\* the step that ends the page-load check of the displayed dashboard, or
\* takes the tab off a dashboard whose check is pending, finds the page loading
\* with no request of its own issued and either leaves it on the dashboard,
\* still loading, with the user set and the token read next, or puts the tab
\* on the landing page '/', not on the sign-in page, with no request of the
\* page issued.  A step that takes the tab to the hosted checkout is the
\* handleUpgrade call of a replaced page, not the page-load check.
C12_RedirectToPublicEntry ==
  [][\A t \in Tabs :
       ui[t].page = "dashboard" =>
         /\ (SessionState(t) = "AUTHENTICATED"
              /\ ui'[t].page \in {"dashboard", "landing", "login"}
              /\ SessionState(t)' # "AUTHENTICATED")
            => ui'[t].page = "landing"
         /\ (authSession # NoSession /\ authSession' = NoSession /\ ui'[t] # ui[t])
            => ui'[t].page = "landing"
         /\ (flow[t].initPc = "getUser"
              /\ (flow'[t].initPc # "getUser" \/ ui'[t].page # "dashboard")
              /\ ui'[t].page \in {"dashboard", "landing", "login"})
            => /\ ui[t].loading
               /\ PageInFlight(t) = {}
               /\ IF ui'[t].page = "dashboard"
                  THEN /\ ui'[t].user # NoUser /\ ui'[t].loading
                       /\ flow'[t].initPc = "getToken"
                  ELSE ui'[t].page = "landing" /\ PageInFlight(t)' = {}]_vars

\* C12 witness: both redirects have happened.  The account has generated on a
\* dashboard whose Logout was clicked twice; its first signOut resolved and
\* took the tab to '/', its second is still pending.  The user signed in
\* again meanwhile, and the page-load check of the new dashboard reported an
\* error, and with it no user: the tab is on the landing page although the
\* session is there.  (A sign-out leaves no session, and a sign-in takes the tab
\* to the dashboard, so only the page-load check puts a tab with a session
\* from the dashboard on '/'.)
C12_Witness ==
  \E t \in Tabs :
    /\ ui[t].page = "landing"
    /\ authSession = Me
    /\ usage_count[Me] >= 1
    /\ Len(old[t]) = 1 /\ old[t][1].f.outN = 1

\* C13: for an authenticated user the dashboard leaves the loading state
\* whatever the outcome of the two initial fetches: while it shows the
\* loading state, the page-load effect is still on its way to
\* setLoading(false).
C13_LoadingEffectAlive ==
  \A t \in Tabs :
    (ui[t].page = "dashboard" /\ SessionState(t) = "AUTHENTICATED" /\ ui[t].loading)
      => flow[t].initPc \in {"getToken", "fetch"}

=============================================================================
